---- MODULE Spec2Model ----
(***************************************************************************)
(* State-machine model of SshClient (src/qtssh/sshclient.cpp): the session *)
(* life cycle driven by _ssh_processEvent, the transport notifications of  *)
(* the QTcpSocket, the two timers, the channel registry and the channel    *)
(* creation mutex.                                                         *)
(*                                                                         *)
(* Every handler is an operator from a session record to a session record, *)
(* so that a handler the code runs inline (a signal delivered through a    *)
(* direct connection) is applied inside the handler that triggers it.      *)
(***************************************************************************)
EXTENDS Integers, Sequences, FiniteSets, TLC

VARIABLES
    m_sshState,                      \* SshState
    m_session,                       \* TRUE iff m_session != nullptr
    m_knownHosts,                    \* TRUE iff m_knownHosts != nullptr
    ssh_authenticated,               \* the engine's libssh2_userauth_authenticated flag
    m_authenticationMethodes,        \* QByteArrayList
    m_hostname, m_port, m_username,  \* connection target
    m_channels,                      \* QList<SshChannel*>
    m_socket,                        \* m_socket.state(), with the pending close of a connecting socket
    m_connectionTimeout,             \* TRUE iff the timer is active
    m_keepalive,                     \* TRUE iff the timer is active
    channelCreationInProgress,       \* TRUE iff the mutex is locked
    currentLockerForChannelCreation, \* identity, or "nullptr"
    queued,                          \* queued invocations of _ssh_processEvent
    pc,                              \* "run", or why the event loop no longer runs
    \* what an observer of the last step has seen
    op,                              \* the request, notification or timer that ran
    arg,                             \* the arguments it was called with
    ret,                             \* what it returned, if anything
    fatal,                           \* the fatal failure it detected, or "none"
    trace,                           \* the engine calls it made, with their results
    scheduled,                       \* the delay (ms) it started m_keepalive with, or 0
    \* what the callers have been told so far
    retAccepted, retRejected,        \* values connectToHost has returned, by outcome
    holders,                         \* identities granted the mutex and not yet releasing it
    \* what has happened since the last accepted connectToHost
    sshDisconnectedEmitted,          \* number of sshDisconnected() emitted
    sessionFreed                     \* number of handles libssh2_session_free released

vars == <<m_sshState, m_session, m_knownHosts, ssh_authenticated,
          m_authenticationMethodes, m_hostname, m_port, m_username, m_channels,
          m_socket, m_connectionTimeout, m_keepalive, channelCreationInProgress,
          currentLockerForChannelCreation, queued, pc, op, arg, ret, fatal, trace,
          scheduled, retAccepted, retRejected, holders, sshDisconnectedEmitted,
          sessionFreed>>

(***************************************************************************)
(* Bounds and input sets                                                   *)
(***************************************************************************)
MaxQueued == 2
MaxChannels == 2
MaxMethods == 2
MaxElapsed == 32

SshState == {"Unconnected", "SocketConnection", "WaitingSocketConnection",
             "Initialize", "HandShake", "GetAuthenticationMethodes",
             "Authentication", "Ready", "DisconnectingChannel",
             "DisconnectingSession", "FreeSession", "Error"}

Methods == {"publickey", "password", "keyboard-interactive"}
Hosts == {"h1", "h2"}
Users == {"u1"}
Ports == {22}
Channels == {"ch1", "ch2"}
Identities == {"idA", "idB", "idC"}

BoundedSeq(S, n) == UNION {[1..k -> S] : k \in 0..n}
MethodLists == BoundedSeq(Methods, MaxMethods)
\* QByteArray(alist).split(',') has at least one element
ServerLists == MethodLists \ {<<>>}
\* the lists the life-cycle specification connects with, and is offered
PasswordLists == {<<>>, <<"password">>}
PasswordOffers == {<<"password">>}

(***************************************************************************)
(* The session as a record                                                 *)
(***************************************************************************)
Cur == [st |-> m_sshState, session |-> m_session, known |-> m_knownHosts,
        auth |-> ssh_authenticated, meth |-> m_authenticationMethodes,
        host |-> m_hostname, port |-> m_port, user |-> m_username,
        chan |-> m_channels, sock |-> m_socket, connT |-> m_connectionTimeout,
        keepT |-> m_keepalive, locked |-> channelCreationInProgress,
        owner |-> currentLockerForChannelCreation, queued |-> queued, pc |-> pc,
        op |-> "none", arg |-> <<>>, ret |-> "void", fatal |-> "none",
        trace |-> <<>>, scheduled |-> 0, retA |-> retAccepted, retR |-> retRejected,
        holders |-> holders, emitted |-> sshDisconnectedEmitted,
        freed |-> sessionFreed]

\* the step of the operation `name`, which turns the session into s
Becomes(name, s) ==
    /\ pc = "run"
    /\ s.queued <= MaxQueued
    /\ m_sshState' = s.st
    /\ m_session' = s.session
    /\ m_knownHosts' = s.known
    /\ ssh_authenticated' = s.auth
    /\ m_authenticationMethodes' = s.meth
    /\ m_hostname' = s.host
    /\ m_port' = s.port
    /\ m_username' = s.user
    /\ m_channels' = s.chan
    /\ m_socket' = s.sock
    /\ m_connectionTimeout' = s.connT
    /\ m_keepalive' = s.keepT
    /\ channelCreationInProgress' = s.locked
    /\ currentLockerForChannelCreation' = s.owner
    /\ queued' = s.queued
    /\ pc' = s.pc
    /\ op' = name
    /\ arg' = s.arg
    /\ ret' = s.ret
    /\ fatal' = s.fatal
    /\ trace' = s.trace
    /\ scheduled' = s.scheduled
    /\ retAccepted' = s.retA
    /\ retRejected' = s.retR
    /\ holders' = s.holders
    /\ sshDisconnectedEmitted' = s.emitted
    /\ sessionFreed' = s.freed

setSshState(s, state) == [s EXCEPT !.st = state]

emit_sshEvent(s) == [s EXCEPT !.queued = @ + 1]

Fatal(s, kind) == [s EXCEPT !.fatal = kind]

Called(s, call, result) == [s EXCEPT !.trace = Append(@, <<call, result>>)]

\* the engine has offered the methods of list
Offered(s, list) ==
    [s EXCEPT !.trace = @ \o [i \in 1..Len(list) |-> <<"offer", list[i]>>]]

\* a call into libssh2 that dereferences the session handle
NullSession(s) == [Called(s, "null-handle", "crash") EXCEPT !.pc = "crashed"]

(***************************************************************************)
(* Transport notifications (direct connections: they run inline)           *)
(***************************************************************************)
connection_socketDisconnected(s) == emit_sshEvent(setSshState(s, "FreeSession"))

connection_socketError(s) ==
    emit_sshEvent(setSshState(Fatal(s, "socketError"), "Error"))

connection_socketConnected(s) ==
    IF s.st = "WaitingSocketConnection"
    THEN emit_sshEvent(setSshState(s, "Initialize"))
    ELSE emit_sshEvent(setSshState(s, "Error"))

\* The signals of m_socket are connected without a connection type, so a
\* signal the socket emits inside one of its own methods runs its slot inline;
\* the trace records it as the call "inline".
\* m_socket.disconnectFromHost(): nothing on an unconnected socket; a connecting
\* socket remembers the close; a connected one closes at once and emits
\* disconnected() inline (flushed), or enters ClosingState until its write
\* buffer is flushed and emits disconnected() from the event loop.
socket_disconnectFromHost(s, flushed) ==
    CASE s.sock = "Unconnected" -> s
      [] s.sock \in {"Connecting", "ConnectingPendingClose"} ->
            [s EXCEPT !.sock = "ConnectingPendingClose"]
      [] s.sock = "Connected" ->
            IF flushed
            THEN connection_socketDisconnected(
                     Called([s EXCEPT !.sock = "Unconnected"],
                            "inline", "_connection_socketDisconnected"))
            ELSE [s EXCEPT !.sock = "Closing"]
      [] s.sock = "Closing" -> s

\* m_socket.connectToHost(): a socket that is not unconnected refuses and
\* emits error(OperationError) inline.
socket_connectToHost(s) ==
    IF s.sock = "Unconnected"
    THEN [s EXCEPT !.sock = "Connecting"]
    ELSE connection_socketError(Called(s, "inline", "_connection_socketError"))

connection_socketTimeout(s, flushed) ==
    emit_sshEvent(setSshState(Fatal(socket_disconnectFromHost(s, flushed), "timeout"), "Error"))

(***************************************************************************)
(* _ssh_processEvent                                                       *)
(***************************************************************************)
Results == {"ok", "fail", "again"}

ListAnswers(offers) == [r : {"again", "fail"}, l : {<<>>}] \cup [r : {"ok"}, l : offers]

ConnectionPhase == {"Initialize", "HandShake", "GetAuthenticationMethodes",
                    "Authentication"}

\* the results of the authentication attempts of a pass that makes at most n:
\* a pass makes no attempt after one that did not fail outright, so the
\* results past it, like those past n, are written "fail"
AuthAnswers(n) ==
    {f \in [1..MaxMethods -> Results] :
        \A k \in 1..MaxMethods :
            (k > n \/ \E j \in 1..(k - 1) : f[j] # "fail") => f[k] = "fail"}

NoList == [r |-> "fail", l |-> <<>>]
NoAuth == [k \in 1..MaxMethods |-> "fail"]

\* what the engine and the transport answer during one processing pass.  The
\* calls are made in the order init, handshake, hostkey, userauth_list,
\* authentication attempts, and a call that does not succeed ends the pass:
\* the answers to the calls that are then not made are written as defaults.
AnswersFor(s, offers) ==
    LET asks == s.st \in ConnectionPhase \ {"Authentication"} /\ s.meth = <<>>
        lists == IF asks THEN ListAnswers(offers) ELSE {NoList}
        attempts(la) == IF s.st \notin ConnectionPhase THEN 0
                        ELSE IF la.r = "ok" THEN Len(la.l) ELSE Len(s.meth)
        made(c) == /\ (c.init # "ok" => c.hs = "ok")
                   /\ (c.init # "ok" \/ c.hs # "ok" => c.fp = "ok")
                   /\ (c.init # "ok" \/ c.hs # "ok" \/ c.fp # "ok" =>
                          c.list = NoList /\ c.auth = NoAuth)
                   /\ (asks /\ c.list.r # "ok" => c.auth = NoAuth)
    IN  UNION {
          {c \in
            [init : IF s.st = "Initialize" THEN {"ok", "fail"} ELSE {"ok"},
             hs   : IF s.st \in {"Initialize", "HandShake"} THEN Results ELSE {"ok"},
             fp   : IF s.st \in {"Initialize", "HandShake"} THEN {"ok", "fail"} ELSE {"ok"},
             list : {la},
             auth : AuthAnswers(attempts(la)),
             ub   : IF s.st \in ConnectionPhase THEN {"abort", "unequal"} ELSE {"abort"},
             disc : IF s.st = "DisconnectingSession" THEN {"ok", "again"} ELSE {"ok"},
             free : IF s.st \in {"DisconnectingSession", "FreeSession"}
                    THEN {"ok", "again"} ELSE {"ok"},
             flushed : IF s.sock = "Connected" THEN BOOLEAN ELSE {TRUE}] : made(c)}
          : la \in lists}

\* if(libssh2_userauth_authenticated(m_session)) ... else ...; then case Ready
AuthenticatedCheck(s) ==
    IF s.auth
    THEN setSshState([s EXCEPT !.connT = FALSE, !.keepT = TRUE, !.scheduled = 1000],
                     "Ready")
    ELSE setSshState(Fatal(s, "authentication"), "Error")

\* the "password" branch giving the method up when the call would block
PasswordAttempt_dropsOnAgain(s, a, k) ==
    LET r == a.auth[k]
        s1 == Called(s, "password", r)
    IN  CASE r = "again" -> [s1 EXCEPT !.meth = Tail(@)]
          [] r = "fail"  -> [s1 EXCEPT !.meth = Tail(@)]
          [] r = "ok"    -> AuthenticatedCheck(setSshState([s1 EXCEPT !.auth = TRUE], "Ready"))

\* the "password" branch of the loop body, attempt number k of the pass
PasswordAttempt(s, a, k) ==
    LET r == a.auth[k]
        s1 == Called(s, "password", r)
    IN  CASE r = "again" -> s1
          [] r = "fail"  -> [s1 EXCEPT !.meth = Tail(@)]
          [] r = "ok"    -> AuthenticatedCheck(setSshState([s1 EXCEPT !.auth = TRUE], "Ready"))

RECURSIVE AuthenticationLoop(_, _, _)
\* the loop with removeLast() in place of removeFirst() after a failed publickey
AuthenticationLoop_removesLast(s, a, k) ==
    IF Len(s.meth) = 0 THEN AuthenticatedCheck(s)
    ELSE IF Head(s.meth) = "publickey" THEN
        LET r == a.auth[k]
            s1 == Called(s, "publickey", r)
        IN  CASE r = "again" -> s1
              [] r = "ok" -> AuthenticatedCheck(setSshState([s1 EXCEPT !.auth = TRUE], "Ready"))
              [] r = "fail" -> [s1 EXCEPT !.meth = SubSeq(@, 1, Len(@) - 1)]
    ELSE IF Head(s.meth) = "password" THEN PasswordAttempt(s, a, k)
    ELSE [s EXCEPT !.pc = "hung"]

\* while(m_authenticationMethodes.length() != 0) { ... }
AuthenticationLoop(s, a, k) ==
    IF Len(s.meth) = 0 THEN AuthenticatedCheck(s)
    ELSE IF Head(s.meth) = "publickey" THEN
        LET r == a.auth[k]
            s1 == Called(s, "publickey", r)
        IN  CASE r = "again" -> s1
              [] r = "ok" -> AuthenticatedCheck(setSshState([s1 EXCEPT !.auth = TRUE], "Ready"))
              [] r = "fail" ->
                    LET s2 == [s1 EXCEPT !.meth = Tail(@)] IN
                    \* falls to: if(m_authenticationMethodes.first() == "password")
                    IF Len(s2.meth) = 0
                    THEN \* first() of an empty list: Q_ASSERT aborts, or the stale
                         \* slot of the removed "publickey" is read and differs
                         IF a.ub = "abort"
                         THEN [Called(s2, "first-of-empty", "abort") EXCEPT !.pc = "crashed"]
                         ELSE AuthenticationLoop(Called(s2, "first-of-empty", "unequal"), a, k + 1)
                    ELSE IF Head(s2.meth) = "password"
                         THEN PasswordAttempt(s2, a, k + 1)
                         ELSE AuthenticationLoop(s2, a, k + 1)
    ELSE IF Head(s.meth) = "password" THEN PasswordAttempt(s, a, k)
    ELSE \* neither branch matches and nothing changes: the loop never ends
         [s EXCEPT !.pc = "hung"]

case_Authentication(s, a) ==
    \* every path calls libssh2_userauth_* with m_session
    IF ~s.session THEN NullSession(s)
    ELSE AuthenticationLoop(s, a, 1)

case_GetAuthenticationMethodes(s, a) ==
    IF Len(s.meth) = 0
    THEN IF ~s.session THEN NullSession(s)
         ELSE LET s1 == Called(s, "userauth_list", a.list.r) IN
              CASE a.list.r = "again" -> s1
                [] a.list.r = "fail" ->
                      socket_disconnectFromHost(
                          setSshState(Fatal(s1, "methodList"), "Error"), a.flushed)
                [] a.list.r = "ok" ->
                      case_Authentication(
                          setSshState(Offered([s1 EXCEPT !.meth = a.list.l], a.list.l),
                                      "Authentication"), a)
    ELSE case_Authentication(setSshState(s, "Authentication"), a)

case_HandShake(s, a) ==
    IF ~s.session THEN NullSession(s)
    ELSE LET s1 == Called(s, "handshake", a.hs) IN
         CASE a.hs = "again" -> s1
           [] a.hs = "fail" ->
                 socket_disconnectFromHost(
                     setSshState(Fatal(s1, "handshake"), "Error"), a.flushed)
           [] a.hs = "ok" ->
                 IF a.fp = "fail"
                 THEN socket_disconnectFromHost(
                          setSshState(Fatal(s1, "hostkey"), "Error"), a.flushed)
                 ELSE case_GetAuthenticationMethodes(
                          setSshState(s1, "GetAuthenticationMethodes"), a)

case_Initialize(s, a) ==
    IF a.init = "fail"
    THEN socket_disconnectFromHost(
             setSshState([s EXCEPT !.session = FALSE], "Error"), a.flushed)
    ELSE case_HandShake(
             setSshState([s EXCEPT !.session = TRUE, !.known = TRUE, !.auth = FALSE],
                         "HandShake"), a)

case_FreeSession(s, a) ==
    LET s1 == [s EXCEPT !.known = FALSE] IN
    IF s1.session /\ a.free = "again"
    THEN Called(s1, "session_free", "again")
    ELSE \* m_session = nullptr; emit sshDisconnected(); setSshState(Unconnected)
         setSshState([s1 EXCEPT !.session = FALSE,
                                !.freed = IF s1.session THEN @ + 1 ELSE @,
                                !.emitted = @ + 1],
                     "Unconnected")

case_DisconnectingSession(s, a) ==
    IF ~s.session THEN NullSession(s)
    ELSE LET s1 == Called(s, "session_disconnect", a.disc) IN
         IF a.disc = "again" THEN s1
         ELSE IF s1.sock = "Connected"
              THEN case_FreeSession(socket_disconnectFromHost(s1, a.flushed), a)
              ELSE case_FreeSession(emit_sshEvent(setSshState(s1, "FreeSession")), a)

\* for(SshChannel* ch: m_channels) ch->close(): the channel is asked to close,
\* and unregisters when it has closed
case_DisconnectingChannel(s) ==
    IF Len(s.chan) > 0
    THEN [s EXCEPT !.trace = @ \o [i \in 1..Len(s.chan) |-> <<"close", s.chan[i]>>]]
    ELSE setSshState(s, "DisconnectingSession")

case_Error(s, a) ==
    IF s.sock # "Unconnected" THEN socket_disconnectFromHost(s, a.flushed) ELSE s

case_SocketConnection(s) ==
    setSshState(socket_connectToHost([s EXCEPT !.connT = TRUE]), "WaitingSocketConnection")

ssh_processEvent(s, a) ==
    CASE s.st = "Unconnected" -> s
      [] s.st = "SocketConnection" -> case_SocketConnection(s)
      [] s.st = "WaitingSocketConnection" -> s
      [] s.st = "Initialize" -> case_Initialize(s, a)
      [] s.st = "HandShake" -> case_HandShake(s, a)
      [] s.st = "GetAuthenticationMethodes" -> case_GetAuthenticationMethodes(s, a)
      [] s.st = "Authentication" -> case_Authentication(s, a)
      [] s.st = "Ready" -> s
      [] s.st = "DisconnectingChannel" -> case_DisconnectingChannel(s)
      [] s.st = "DisconnectingSession" -> case_DisconnectingSession(s, a)
      [] s.st = "FreeSession" -> case_FreeSession(s, a)
      [] s.st = "Error" -> case_Error(s, a)

(***************************************************************************)
(* Keepalive                                                               *)
(***************************************************************************)
MAX_LOST_KEEP_ALIVE == 6
\* libssh2_keepalive_config(m_session, 1, 5): the engine reports at most 5 s
KeepAliveInterval == 5

\* what a probe meets: the result of libssh2_keepalive_send, the milliseconds
\* elapsed since m_lastProofOfLive, and the seconds the engine reports
KeepAliveProbes ==
    [ret : {"ok", "sendError", "again"},
     elapsed : {500 * h : h \in 0..(2 * MaxElapsed)},
     interval : 0..KeepAliveInterval]

\* the probes the life-cycle specification meets: one for each branch
LifeCycleProbes ==
    {[ret |-> "sendError", elapsed |-> 0, interval |-> 0],
     [ret |-> "ok", elapsed |-> 31000, interval |-> 5],
     [ret |-> "ok", elapsed |-> 29000, interval |-> 5]}

\* the deadline test taken when the deadline is reached, not exceeded
keepAliveLost_atDeadline(elapsed, keepalive) ==
    (elapsed \div 1000) >= (MAX_LOST_KEEP_ALIVE * keepalive)

\* ((now - m_lastProofOfLive) / 1000) > (MAX_LOST_KEEP_ALIVE * keepalive)
keepAliveLost(elapsed, keepalive) ==
    (elapsed \div 1000) > (MAX_LOST_KEEP_ALIVE * keepalive)

\* keepalive -= 1; if(keepalive < 2) keepalive = 2; start(keepalive * 1000)
keepAliveDelay(keepalive) ==
    LET next == keepalive - 1 IN (IF next < 2 THEN 2 ELSE next) * 1000

\* int keepalive = 0: the engine writes it only when the send has completed
sendKeepAlive(s, probe, flushed) ==
    LET keepalive == IF probe.ret = "ok" THEN probe.interval ELSE 0
        s0 == [s EXCEPT !.arg = <<probe.ret, probe.elapsed, probe.interval>>]
    IN  IF s0.session
        THEN LET s1 == Called(s0, "keepalive_send",
                              IF probe.ret = "ok" THEN "ok"
                              ELSE IF probe.ret = "again" THEN "again" ELSE "fail")
             IN  IF probe.ret = "sendError"
                 THEN socket_disconnectFromHost(Fatal(s1, "keepalive"), flushed)
                 ELSE IF keepAliveLost(probe.elapsed, keepalive)
                 THEN socket_disconnectFromHost(Fatal(s1, "keepalive"), flushed)
                 ELSE [s1 EXCEPT !.keepT = TRUE, !.scheduled = keepAliveDelay(keepalive)]
        ELSE s0

(***************************************************************************)
(* Channel registry                                                        *)
(***************************************************************************)
\* QList::removeOne: removes the first occurrence
RECURSIVE removeOne(_, _)
removeOne(list, x) ==
    IF list = <<>> THEN <<>>
    ELSE IF Head(list) = x THEN Tail(list)
    ELSE <<Head(list)>> \o removeOne(Tail(list), x)

\* unregisterChannel leaving the keepalive timer alone
unregisterChannel_keepaliveRuns(s, channel) ==
    LET s1 == [s EXCEPT !.chan = removeOne(@, channel), !.arg = <<channel>>] IN
    IF s1.st = "DisconnectingChannel" /\ Len(s1.chan) = 0
    THEN emit_sshEvent(setSshState(s1, "DisconnectingSession"))
    ELSE s1

\* unregisterChannel without its test of the state
unregisterChannel_anyState(s, channel) ==
    LET s1 == [s EXCEPT !.chan = removeOne(@, channel), !.arg = <<channel>>] IN
    IF Len(s1.chan) = 0
    THEN emit_sshEvent(setSshState([s1 EXCEPT !.keepT = FALSE], "DisconnectingSession"))
    ELSE s1

unregisterChannel(s, channel) ==
    LET s1 == [s EXCEPT !.chan = removeOne(@, channel), !.arg = <<channel>>] IN
    IF s1.st = "DisconnectingChannel" /\ Len(s1.chan) = 0
    THEN emit_sshEvent(setSshState([s1 EXCEPT !.keepT = FALSE], "DisconnectingSession"))
    ELSE s1

registerChannel(s, channel) == [s EXCEPT !.chan = Append(@, channel), !.arg = <<channel>>]

(***************************************************************************)
(* Channel creation mutex.  The identities are the addresses of the        *)
(* callers, so none of them is nullptr; the mutex is a plain QMutex, whose *)
(* tryLock() locks it and answers true exactly when it was free.           *)
(***************************************************************************)
\* takeChannelCreationMutex granting the mutex to whoever asks
takeChannelCreationMutex_noOwnerTest(s, identifier) ==
    [s EXCEPT !.locked = TRUE, !.arg = <<identifier>>, !.owner = identifier,
              !.ret = "true", !.holders = @ \cup {identifier}]

takeChannelCreationMutex(s, identifier) ==
    LET tryLock == ~s.locked
        s1 == [s EXCEPT !.locked = TRUE, !.arg = <<identifier>>]
    IN  IF ~tryLock /\ s1.owner # identifier
        THEN [s1 EXCEPT !.ret = "false"]
        ELSE [s1 EXCEPT !.owner = identifier, !.ret = "true",
                        !.holders = @ \cup {identifier}]

\* releaseChannelCreationMutex without its test of the owner
releaseChannelCreationMutex_noOwnerTest(s, identifier) ==
    [s EXCEPT !.arg = <<identifier>>, !.holders = @ \ {identifier},
              !.locked = FALSE, !.owner = "nullptr"]

releaseChannelCreationMutex(s, identifier) ==
    LET s1 == [s EXCEPT !.arg = <<identifier>>, !.holders = @ \ {identifier}] IN
    IF s1.owner = identifier
    THEN [s1 EXCEPT !.locked = FALSE, !.owner = "nullptr"]
    ELSE s1

(***************************************************************************)
(* Requests                                                                *)
(***************************************************************************)
\* the value of each return statement of connectToHost
connectToHost_rejected == 0
connectToHost_accepted == 0

\* connectToHost without its test of the state
connectToHost_anyState(s, user, host, port, methodes) ==
    emit_sshEvent(setSshState(
        [s EXCEPT !.arg = <<user, host, port, methodes>>, !.ret = "int",
                  !.meth = methodes, !.host = host, !.port = port, !.user = user,
                  !.retA = @ \cup {connectToHost_accepted},
                  !.emitted = 0, !.freed = 0],
        "SocketConnection"))

connectToHost(s, user, host, port, methodes) ==
    LET s1 == [s EXCEPT !.arg = <<user, host, port, methodes>>, !.ret = "int"] IN
    IF s1.st # "Unconnected"
    THEN [s1 EXCEPT !.retR = @ \cup {connectToHost_rejected}]
    ELSE emit_sshEvent(setSshState(
             [s1 EXCEPT !.meth = methodes, !.host = host, !.port = port, !.user = user,
                        !.retA = @ \cup {connectToHost_accepted},
                        !.emitted = 0, !.freed = 0],
             "SocketConnection"))

\* disconnectFromHost without its test of the registry
disconnectFromHost_viaChannels(s) ==
    IF s.st = "Unconnected" THEN s
    ELSE emit_sshEvent(setSshState(s, "DisconnectingChannel"))

disconnectFromHost(s) ==
    IF s.st = "Unconnected" THEN s
    ELSE IF Len(s.chan) = 0
         THEN emit_sshEvent(setSshState(s, "DisconnectingSession"))
         ELSE emit_sshEvent(setSshState(s, "DisconnectingChannel"))

(***************************************************************************)
(* Actions                                                                 *)
(***************************************************************************)
Init ==
    /\ m_sshState = "Unconnected"
    /\ m_session = FALSE
    /\ m_knownHosts = FALSE
    /\ ssh_authenticated = FALSE
    /\ m_authenticationMethodes = <<>>
    /\ m_hostname = ""
    /\ m_port = 0
    /\ m_username = ""
    /\ m_channels = <<>>
    /\ m_socket = "Unconnected"
    /\ m_connectionTimeout = FALSE
    /\ m_keepalive = FALSE
    /\ channelCreationInProgress = FALSE
    /\ currentLockerForChannelCreation = "nullptr"
    /\ queued = 0
    /\ pc = "run"
    /\ op = "none"
    /\ arg = <<>>
    /\ ret = "void"
    /\ fatal = "none"
    /\ trace = <<>>
    /\ scheduled = 0
    /\ retAccepted = {}
    /\ retRejected = {}
    /\ holders = {}
    /\ sshDisconnectedEmitted = 0
    /\ sessionFreed = 0

ConnectToHost(user, host, port, methodes) ==
    Becomes("connectToHost", connectToHost(Cur, user, host, port, methodes))

DisconnectFromHost ==
    Becomes("disconnectFromHost", disconnectFromHost(Cur))

\* channels are created, and register, only while the session is Ready
RegisterChannel(channel) ==
    /\ m_sshState = "Ready"
    /\ Len(m_channels) < MaxChannels
    /\ Becomes("registerChannel", registerChannel(Cur, channel))

UnregisterChannel(channel) ==
    Becomes("unregisterChannel", unregisterChannel(Cur, channel))

TakeChannelCreationMutex(identifier) ==
    Becomes("takeChannelCreationMutex", takeChannelCreationMutex(Cur, identifier))

ReleaseChannelCreationMutex(identifier) ==
    Becomes("releaseChannelCreationMutex", releaseChannelCreationMutex(Cur, identifier))

\* a queued invocation of _ssh_processEvent is delivered
ProcessEvent(offers) ==
    /\ queued > 0
    /\ \E a \in AnswersFor(Cur, offers) :
           Becomes("processEvent", ssh_processEvent([Cur EXCEPT !.queued = @ - 1], a))

\* readyRead() of the socket, connected to _ssh_processEvent (queued)
ReadyRead ==
    /\ m_socket = "Connected"
    /\ Becomes("readyRead", emit_sshEvent(Cur))

\* the TCP connection is established; a close asked for meanwhile follows
SocketConnected ==
    /\ m_socket \in {"Connecting", "ConnectingPendingClose"}
    /\ \E flushed \in (IF m_socket = "ConnectingPendingClose" THEN BOOLEAN ELSE {TRUE}) :
           LET s1 == connection_socketConnected([Cur EXCEPT !.sock = "Connected"]) IN
           Becomes("socketConnected",
                   IF m_socket = "ConnectingPendingClose"
                   THEN socket_disconnectFromHost(s1, flushed) ELSE s1)

\* error() of the socket: a failed connection attempt leaves it unconnected
SocketError ==
    /\ m_socket # "Unconnected"
    /\ Becomes("socketError", connection_socketError(
           [Cur EXCEPT !.sock = IF @ \in {"Connecting", "ConnectingPendingClose"}
                                THEN "Unconnected" ELSE @]))

\* disconnected() from the event loop: the peer closed, or a close completed
SocketDisconnected ==
    /\ m_socket \in {"Connected", "Closing"}
    /\ Becomes("socketDisconnected",
               connection_socketDisconnected([Cur EXCEPT !.sock = "Unconnected"]))

\* m_connectionTimeout fires (it is not single-shot: it stays active)
ConnectionTimeout ==
    /\ m_connectionTimeout
    /\ \E flushed \in (IF m_socket = "Connected" THEN BOOLEAN ELSE {TRUE}) :
           Becomes("connectionTimeout", connection_socketTimeout(Cur, flushed))

\* m_keepalive fires (single-shot)
KeepAliveTimeout(probes) ==
    /\ m_keepalive
    /\ \E probe \in probes,
          flushed \in (IF m_socket = "Connected" THEN BOOLEAN ELSE {TRUE}) :
           Becomes("keepAliveTimeout",
                   sendKeepAlive([Cur EXCEPT !.keepT = FALSE], probe, flushed))

Next ==
    \/ \E user \in Users, host \in Hosts, port \in Ports, methodes \in PasswordLists :
           ConnectToHost(user, host, port, methodes)
    \/ DisconnectFromHost
    \/ \E channel \in Channels : RegisterChannel(channel)
    \/ \E channel \in Channels : UnregisterChannel(channel)
    \/ ProcessEvent(PasswordOffers)
    \/ ReadyRead
    \/ SocketConnected
    \/ SocketError
    \/ SocketDisconnected
    \/ ConnectionTimeout
    \/ KeepAliveTimeout(LifeCycleProbes)

Spec == Init /\ [][Next]_vars

(***************************************************************************)
(* The connection phase with every candidate list and every offer          *)
(***************************************************************************)
NextAuth ==
    \/ \E methodes \in MethodLists : ConnectToHost("u1", "h1", 22, methodes)
    \/ ProcessEvent(ServerLists)
    \/ ReadyRead
    \/ SocketConnected

SpecAuth == Init /\ [][NextAuth]_vars

(***************************************************************************)
(* The channels of a Ready session: they take and release the creation     *)
(* mutex, register and unregister.  The initial state is the one reached   *)
(* by connectToHost("u1", "h1", 22, ["password"]) once the password is     *)
(* accepted.                                                               *)
(***************************************************************************)
InitReady ==
    /\ m_sshState = "Ready"
    /\ m_session = TRUE
    /\ m_knownHosts = TRUE
    /\ ssh_authenticated = TRUE
    /\ m_authenticationMethodes = <<"password">>
    /\ m_hostname = "h1"
    /\ m_port = 22
    /\ m_username = "u1"
    /\ m_channels = <<>>
    /\ m_socket = "Connected"
    /\ m_connectionTimeout = FALSE
    /\ m_keepalive = TRUE
    /\ channelCreationInProgress = FALSE
    /\ currentLockerForChannelCreation = "nullptr"
    /\ queued = 0
    /\ pc = "run"
    /\ op = "processEvent"
    /\ arg = <<>>
    /\ ret = "void"
    /\ fatal = "none"
    /\ trace = <<<<"handshake", "ok">>, <<"password", "ok">>>>
    /\ scheduled = 1000
    /\ retAccepted = {connectToHost_accepted}
    /\ retRejected = {}
    /\ holders = {}
    /\ sshDisconnectedEmitted = 0
    /\ sessionFreed = 0

NextChannels ==
    \/ \E identifier \in Identities : TakeChannelCreationMutex(identifier)
    \/ \E identifier \in Identities : ReleaseChannelCreationMutex(identifier)
    \/ \E channel \in Channels : RegisterChannel(channel)
    \/ \E channel \in Channels : UnregisterChannel(channel)

SpecChannels == InitReady /\ [][NextChannels]_vars

(***************************************************************************)
(* The keepalive monitor of a Ready session, with every probe              *)
(***************************************************************************)
NextKeepAlive ==
    \/ KeepAliveTimeout(KeepAliveProbes)
    \/ ReadyRead
    \/ ProcessEvent(PasswordOffers)

SpecKeepAlive == InitReady /\ [][NextKeepAlive]_vars

(***************************************************************************)
(* The life cycle on a running event loop: queued events and pending       *)
(* transport notifications are delivered, the socket reports readable data *)
(* while it is connected, the engine does not answer would-block for ever, *)
(* and the channels asked to close unregister.                             *)
(***************************************************************************)
NextTeardown ==
    \/ ConnectToHost("u1", "h1", 22, <<"password">>)
    \/ DisconnectFromHost
    \/ \E channel \in Channels : RegisterChannel(channel)
    \/ \E channel \in Channels : UnregisterChannel(channel)
    \/ ProcessEvent(PasswordOffers)
    \/ ReadyRead
    \/ SocketConnected
    \/ SocketError
    \/ SocketDisconnected
    \/ ConnectionTimeout
    \/ KeepAliveTimeout(LifeCycleProbes)

\* a processing pass in which no engine call answers would-block
ProcessEventUnblocked ==
    /\ queued > 0
    /\ \E a \in {c \in AnswersFor(Cur, PasswordOffers) :
                     /\ c.hs # "again" /\ c.list.r # "again"
                     /\ \A k \in 1..MaxMethods : c.auth[k] # "again"
                     /\ c.disc # "again" /\ c.free # "again"} :
           Becomes("processEvent", ssh_processEvent([Cur EXCEPT !.queued = @ - 1], a))

\* a channel of a session that is closing its channels unregisters
ClosingChannelUnregisters ==
    /\ m_sshState = "DisconnectingChannel"
    /\ \E i \in 1..Len(m_channels) : UnregisterChannel(m_channels[i])

\* a close of the socket that is under way completes
CloseCompletes == m_socket = "Closing" /\ SocketDisconnected

SpecTeardown ==
    /\ Init /\ [][NextTeardown]_vars
    /\ WF_vars(ProcessEvent(PasswordOffers))
    /\ SF_vars(ProcessEventUnblocked)
    /\ WF_vars(ReadyRead)
    /\ WF_vars(SocketConnected)
    /\ WF_vars(CloseCompletes)
    /\ WF_vars(ClosingChannelUnregisters)

(***************************************************************************)
(* Claims                                                                  *)
(***************************************************************************)
programVars == <<m_sshState, m_session, m_knownHosts, ssh_authenticated,
                 m_authenticationMethodes, m_hostname, m_port, m_username,
                 m_channels, m_socket, m_connectionTimeout, m_keepalive,
                 channelCreationInProgress, currentLockerForChannelCreation,
                 queued, pc>>

\* C1: a connectToHost issued in a state other than Unconnected leaves the
\* state, the stored host, port and username, the candidate list and the queue
\* of processing events (indeed every program variable) as they were; issued in
\* Unconnected it stores its arguments and moves the state to SocketConnection.
C1_ConnectOnlyWhenUnconnected ==
    [][op' = "connectToHost" =>
          IF m_sshState # "Unconnected"
          THEN UNCHANGED programVars
          ELSE /\ m_sshState' = "SocketConnection"
               /\ <<m_username', m_hostname', m_port', m_authenticationMethodes'>> = arg'
               /\ queued' = queued + 1]_vars

\* a connectToHost has been rejected in Error, with another target stored
C1_Witness ==
    /\ op = "connectToHost"
    /\ m_sshState = "Error"
    /\ arg # <<m_username, m_hostname, m_port, m_authenticationMethodes>>

\* C2: disconnectFromHost changes nothing when the state is Unconnected; in
\* every other state it sets the state to DisconnectingSession when the
\* registry is empty (so directly from Ready with no channel) and to
\* DisconnectingChannel when it is not.
C2_DisconnectTarget ==
    [][op' = "disconnectFromHost" =>
          IF m_sshState = "Unconnected"
          THEN UNCHANGED programVars
          ELSE /\ m_sshState' = (IF m_channels = <<>> THEN "DisconnectingSession"
                                                      ELSE "DisconnectingChannel")
               /\ m_channels' = m_channels]_vars

\* disconnectFromHost has just run on a session that is authenticated and has
\* no channel: it is in DisconnectingSession
C2_Witness ==
    /\ op = "disconnectFromHost"
    /\ ssh_authenticated /\ m_session /\ m_socket = "Connected"
    /\ m_channels = <<>>
    /\ m_sshState = "DisconnectingSession"

TransportOrTimer == {"socketConnected", "socketError", "socketDisconnected",
                     "connectionTimeout", "keepAliveTimeout"}

FatalSessionFailures == {"handshake", "authentication", "socketError", "timeout",
                         "keepalive"}

\* C5 as claimed: the step that detects a fatal session failure (handshake
\* failure, methods exhausted, socket error, connect timeout, keepalive
\* deadline exceeded) leaves the state Error.
C5_FatalFailureIsError == fatal \in FatalSessionFailures => m_sshState = "Error"

\* C6 as claimed: only a request of the caller moves the state out of Error.
C6_ErrorIsInert ==
    [][m_sshState = "Error" /\ m_sshState' # "Error" =>
          op' \in {"connectToHost", "disconnectFromHost"}]_vars

\* C8 as claimed: no value is returned both by a rejected and by an accepted
\* connectToHost.
C8_RejectionDiffers == retAccepted \cap retRejected = {}

\* C9: takeChannelCreationMutex(identity) returns true and makes identity the
\* owner exactly when the mutex is free or identity owns it, and otherwise
\* returns false and leaves the mutex and its owner alone; and at no time
\* have two identities been granted the mutex without releasing it.
C9_TakeGrantsOneOwner ==
    /\ [][op' = "takeChannelCreationMutex" =>
             IF ~channelCreationInProgress \/ currentLockerForChannelCreation = arg'[1]
             THEN /\ ret' = "true"
                  /\ channelCreationInProgress'
                  /\ currentLockerForChannelCreation' = arg'[1]
             ELSE /\ ret' = "false"
                  /\ UNCHANGED <<channelCreationInProgress,
                                 currentLockerForChannelCreation>>]_vars
    /\ [](/\ Cardinality(holders) <= 1
          /\ holders = IF channelCreationInProgress
                       THEN {currentLockerForChannelCreation} ELSE {})

\* an identity has just been refused the mutex another one holds
C9_Witness ==
    /\ op = "takeChannelCreationMutex"
    /\ ret = "false"
    /\ channelCreationInProgress
    /\ currentLockerForChannelCreation \in Identities \ {arg[1]}

\* C10: releaseChannelCreationMutex(identity) unlocks the mutex and clears the
\* owner when identity is the owner; otherwise (another owner, or none) it
\* leaves both as they were, and the event loop goes on.
C10_ReleaseOnlyByOwner ==
    [][op' = "releaseChannelCreationMutex" =>
          /\ IF currentLockerForChannelCreation = arg'[1]
             THEN ~channelCreationInProgress'
                  /\ currentLockerForChannelCreation' = "nullptr"
             ELSE UNCHANGED <<channelCreationInProgress,
                              currentLockerForChannelCreation>>
          /\ pc' = "run"]_vars

\* an identity has just released the mutex another one holds
C10_Witness ==
    /\ op = "releaseChannelCreationMutex"
    /\ channelCreationInProgress
    /\ currentLockerForChannelCreation \in Identities \ {arg[1]}

AuthCalls(tr) == SelectSeq(tr, LAMBDA e : e[1] \in {"publickey", "password"})
OfferCalls(tr) == SelectSeq(tr, LAMBDA e : e[1] = "offer")
Failed(tr) == SelectSeq(tr, LAMBDA e : e[2] = "fail")

\* C7: in every processing step the methods attempted are, in order, the
\* first elements of the candidate list (the one stored, or the one the
\* engine offered in that step); every attempt but the last failed outright,
\* the failed methods are exactly those removed from the list, and a success
\* is the last attempt and leaves the state Ready.
C7_AttemptsInListOrder ==
    [][op' = "processEvent" =>
          LET att == AuthCalls(trace')
              offer == OfferCalls(trace')
              list == IF offer # <<>> THEN [i \in 1..Len(offer) |-> offer[i][2]]
                      ELSE m_authenticationMethodes
              nfail == Len(Failed(att))
          IN  /\ Len(att) <= Len(list)
              /\ \A i \in 1..Len(att) : att[i][1] = list[i]
              /\ \A i \in 1..(Len(att) - 1) : att[i][2] = "fail"
              /\ m_authenticationMethodes' = SubSeq(list, nfail + 1, Len(list))
              /\ (att # <<>> /\ att[Len(att)][2] = "ok" => m_sshState' = "Ready")]_vars

\* connected with [publickey, password]: publickey has failed, then password
\* has succeeded, and the session is Ready
C7_Witness ==
    /\ op = "processEvent"
    /\ AuthCalls(trace) = <<<<"publickey", "fail">>, <<"password", "ok">>>>
    /\ OfferCalls(trace) = <<>>
    /\ m_authenticationMethodes = <<"password">>
    /\ m_sshState = "Ready"

\* what a processing pass leaves of the program state
Outcome(s) == [st |-> s.st, session |-> s.session, known |-> s.known, auth |-> s.auth,
               meth |-> s.meth, sock |-> s.sock, connT |-> s.connT, keepT |-> s.keepT,
               queued |-> s.queued, pc |-> s.pc]

\* the eventual results of the engine: no call blocks
Eventual(s) == {c \in AnswersFor(s, ServerLists) :
                   /\ c.hs # "again"
                   /\ c.list.r # "again"
                   /\ \A k \in 1..MaxMethods : c.auth[k] # "again"}

\* the results c with the call `at` answering would-block instead; `at` is
\* <<"handshake", 0>>, <<"userauth_list", 0>> or <<"auth", k>>, the k-th
\* authentication attempt of the pass
BlockedAt(c, at) ==
    CASE at[1] = "handshake" -> [c EXCEPT !.hs = "again"]
      [] at[1] = "userauth_list" -> [c EXCEPT !.list = [r |-> "again", l |-> <<>>]]
      [] at[1] = "auth" -> [c EXCEPT !.auth[at[2]] = "again"]

\* the results c as the pass resumed after a would-block at `at` meets them
ResumedAt(c, at) ==
    IF at[1] # "auth" THEN c
    ELSE [c EXCEPT !.auth = [k \in 1..MaxMethods |->
                                IF k + at[2] - 1 <= MaxMethods
                                THEN c.auth[k + at[2] - 1] ELSE "fail"]]

\* the call at which the resumed pass starts
FirstCall(at) == IF at[1] = "auth" THEN <<"auth", 1>> ELSE at

\* the calls a pass makes that can answer would-block
BlockingCalls(tr) ==
    {<<e[1], 0>> : e \in {x \in {tr[i] : i \in 1..Len(tr)} :
                             x[1] \in {"handshake", "userauth_list"}}}
    \cup {<<"auth", k>> : k \in 1..Len(AuthCalls(tr))}

\* C4: whatever the eventual results of the engine, wherever a processing
\* pass of the connection phase is cut short by a would-block (handshake,
\* method-list query, any authentication attempt), the cut pass followed by
\* the pass that resumes it leaves the state, the candidate list and the rest
\* of the program state as the uncut pass does; and a pass that blocks at its
\* first call leaves the state and the candidate list as it found them.
C4_ResumptionAfterWouldBlock ==
    m_sshState \in ConnectionPhase /\ pc = "run" /\ queued > 0 =>
        \A c \in Eventual(Cur) :
            LET uncut == ssh_processEvent(Cur, c) IN
            \A at \in BlockingCalls(uncut.trace) :
                LET cut == ssh_processEvent(Cur, BlockedAt(c, at))
                    again == ssh_processEvent(cut, BlockedAt(ResumedAt(c, at), FirstCall(at)))
                    resumed == ssh_processEvent(cut, ResumedAt(c, at))
                IN  /\ cut.st \in ConnectionPhase /\ cut.pc = "run"
                    /\ Outcome(again) = Outcome(cut)
                    /\ Outcome(resumed) = Outcome(uncut)

\* a pass has failed publickey and been cut short by a would-block of the
\* password attempt: the list has lost publickey only
C4_Witness ==
    /\ op = "processEvent"
    /\ AuthCalls(trace) = <<<<"publickey", "fail">>, <<"password", "again">>>>
    /\ m_sshState = "Authentication"
    /\ m_authenticationMethodes = <<"password">>

\* C11: when a probe fires with a live handle and the send succeeds, then if
\* the whole seconds elapsed since the last proof of live exceed 6 times the
\* interval the engine reports, the transport is disconnected and no probe
\* is scheduled; otherwise the transport is left as it is and the next probe
\* is scheduled after max(interval - 1, 2) seconds.
C11_KeepAliveDeadline ==
    [][op' = "keepAliveTimeout" /\ m_session /\ arg'[1] = "ok" =>
          LET seconds == arg'[2] \div 1000
              interval == arg'[3]
          IN  IF seconds > 6 * interval
              THEN /\ m_socket = "Connected" => m_socket' \in {"Unconnected", "Closing"}
                   /\ ~m_keepalive'
                   /\ scheduled' = 0
              ELSE /\ m_socket' = m_socket
                   /\ m_sshState' = m_sshState
                   /\ m_keepalive'
                   /\ scheduled' = 1000 * (IF interval - 1 > 2 THEN interval - 1 ELSE 2)]_vars

\* a probe with interval 3 and 6*3-1 seconds elapsed has left the transport
\* connected and scheduled the next probe after 2 seconds
C11_Witness ==
    /\ op = "keepAliveTimeout"
    /\ arg = <<"ok", 17000, 3>>
    /\ m_socket = "Connected"
    /\ m_keepalive
    /\ scheduled = 2000

HandleStates == {"HandShake", "GetAuthenticationMethodes", "Authentication", "Ready",
                 "DisconnectingChannel", "DisconnectingSession"}
NoHandleStates == {"Unconnected", "SocketConnection", "WaitingSocketConnection", "Error"}

\* C12 as claimed: the engine handle is non-null in every state strictly
\* between Initialize and FreeSession, and null in Unconnected,
\* SocketConnection, WaitingSocketConnection and Error.
C12_HandleIffActive ==
    /\ m_sshState \in HandleStates => m_session
    /\ m_sshState \in NoHandleStates => ~m_session

\* C13 as claimed: whenever the state is Unconnected the registry is empty.
C13_RegistryEmptyWhenUnconnected == m_sshState = "Unconnected" => m_channels = <<>>

\* C14 as claimed: every processing pass terminates, whatever methods the
\* candidate list holds: the event loop is never stuck inside a pass.
C14_PassTerminates == pc # "hung"

\* C15 as claimed: no processing pass reads the first element of an empty
\* candidate list, and a pass that has attempted a method and ends with the
\* list empty and no successful authentication ends in Error.
C15_ExhaustedIsError ==
    op = "processEvent" =>
        /\ \A i \in 1..Len(trace) : trace[i][1] # "first-of-empty"
        /\ (AuthCalls(trace) # <<>> /\ m_authenticationMethodes = <<>>
             /\ ~ssh_authenticated /\ pc = "run" => m_sshState = "Error")

\* C16 as claimed: only a connect request moves the state out of
\* Unconnected, and the connect timeout fires neither in Unconnected nor in
\* Ready.
C16_StaysUnconnected ==
    [][/\ (m_sshState = "Unconnected" /\ m_sshState' # "Unconnected" =>
               op' = "connectToHost")
       /\ (op' = "connectionTimeout" => m_sshState \notin {"Unconnected", "Ready"})]_vars

\* C17 as claimed: once disconnectFromHost has been called in a state other
\* than Unconnected, the session eventually is Unconnected with the engine
\* handle and the known-hosts store released.
C17_TeardownCompletes ==
    (op = "disconnectFromHost" /\ m_sshState # "Unconnected")
        ~> (m_sshState = "Unconnected" /\ ~m_session /\ ~m_knownHosts)

\* C18 as claimed: while a processing step executes, no other handler runs
\* inline, so the state at the end of the step is the one the step set.
C18_NoInlineHandler ==
    op = "processEvent" => \A i \in 1..Len(trace) : trace[i][1] # "inline"

\* the registry `after` is the registry `before` less one occurrence of channel
LessOne(before, after, channel) ==
    IF \E i \in 1..Len(before) : before[i] = channel
    THEN \E i \in 1..Len(before) :
             /\ before[i] = channel
             /\ after = SubSeq(before, 1, i - 1) \o SubSeq(before, i + 1, Len(before))
    ELSE after = before

\* C19: unregisterChannel called in a state other than DisconnectingChannel
\* removes one occurrence of the channel from the registry and changes
\* nothing else (state, timers, queued events, handle, socket); and a channel
\* is asked to close only by a processing step that runs in
\* DisconnectingChannel.
C19_UnregisterIsBookkeeping ==
    [][/\ (op' = "unregisterChannel" /\ m_sshState # "DisconnectingChannel" =>
               /\ LessOne(m_channels, m_channels', arg'[1])
               /\ UNCHANGED <<m_sshState, m_session, m_knownHosts, ssh_authenticated,
                              m_authenticationMethodes, m_hostname, m_port, m_username,
                              m_socket, m_connectionTimeout, m_keepalive,
                              channelCreationInProgress, currentLockerForChannelCreation,
                              queued, pc>>)
       /\ ((\E i \in 1..Len(trace') : trace'[i][1] = "close") =>
               op' = "processEvent" /\ m_sshState = "DisconnectingChannel")]_vars

\* the only channel of a Ready session has unregistered: the registry is
\* empty, the session still Ready and its keepalive timer still running
C19_Witness ==
    /\ op = "unregisterChannel"
    /\ arg = <<"ch1">>
    /\ m_channels = <<>>
    /\ m_sshState = "Ready"
    /\ m_keepalive
    /\ queued = 0

\* C20 as claimed: no call into the engine that takes the session handle is
\* made with a null handle.
C20_EngineCallsHaveHandle == \A i \in 1..Len(trace) : trace[i][1] # "null-handle"

\* C21 as claimed: between two consecutive accepted connect requests
\* sshDisconnected is emitted at most once and the handle is released at
\* most once.
C21_DisconnectedOnce == sshDisconnectedEmitted <= 1 /\ sessionFreed <= 1

====
